---- MODULE Spec2Model ----
(***************************************************************************)
(* Concert ticket booking: BookingService.createBooking run as one         *)
(* PostgreSQL transaction (READ COMMITTED) per attempt.                    *)
(*                                                                         *)
(* The committed store is (tiers, bookings, items).  Every attempt keeps   *)
(* its uncommitted writes in tx[a]; COMMIT publishes them atomically and   *)
(* ROLLBACK discards them.  Row locks taken by SELECT ... FOR UPDATE and   *)
(* by UPDATE are held until the transaction ends.                          *)
(*                                                                         *)
(* Money is counted in thousandths of the currency unit (100.00 is         *)
(* 100000), so that a claimed total may differ from the computed one by    *)
(* less than a cent.                                                       *)
(***************************************************************************)
EXTENDS Integers, Sequences, FiniteSets, TLC

\* ------------------------------------------------------------------ bounds
NumAttempts == 2          \* concurrent createBooking calls in Spec
FrontRowTotal == 2        \* capacity of tier 2 (scaled down from the seed)
MaxSubmissions == 3       \* submissions of the booking page in SpecClient
MaxMounts == 2            \* loads of the booking page in SpecClient

\* ------------------------------------------------------- program constants
VipAvailable == 5         \* tier 1 inventory of the contention test
VipPrice == 100000        \* 100.00
FrontRowPrice == 50000    \* 50.00
GaPrice == 10000          \* 10.00
Tolerance == 10           \* 0.01
ContentionQuantity == 3   \* tickets per request in the contention test
ContentionRequests == 3   \* concurrent requests in the contention test
MaxTiers == 3             \* CreateBookingSchema: at most 3 tiers per booking

\* -------------------------------------------------------------- seed data
Concert == "concert_001"
OtherConcert == "concert_002"   \* a second concert, owner of tier 3
NoConcert == "concert_404"      \* an id no concert has

Concerts == {Concert, OtherConcert}
TierIds == {1, 2, 3}
Attempts == 1..NumAttempts

SeedTiers ==
  (1 :> [concert_id |-> Concert, price |-> VipPrice,
         total_quantity |-> VipAvailable, available_quantity |-> VipAvailable,
         version |-> 0])
  @@ (2 :> [concert_id |-> Concert, price |-> FrontRowPrice,
            total_quantity |-> FrontRowTotal,
            available_quantity |-> FrontRowTotal, version |-> 0])
  @@ (3 :> [concert_id |-> OtherConcert, price |-> GaPrice,
            total_quantity |-> 1, available_quantity |-> 1, version |-> 0])

\* ------------------------------------------------------------- the inputs
Line(t, q) == [tierId |-> t, quantity |-> q]

Shape(c, ts, amount) == [concertId |-> c, tickets |-> ts, totalAmount |-> amount]

Shapes ==
  { Shape(Concert, <<Line(1, ContentionQuantity)>>,
          ContentionQuantity * VipPrice + 6),
    Shape(Concert, <<Line(2, 2), Line(1, 1)>>, VipPrice + 2 * FrontRowPrice),
    Shape(Concert, <<Line(1, ContentionQuantity)>>,
          ContentionQuantity * VipPrice - 2 * Tolerance),
    Shape(NoConcert, <<Line(1, 1)>>, VipPrice),
    Shape(Concert, <<Line(1, 1), Line(3, 1)>>, VipPrice + GaPrice),
    Shape(Concert, <<Line(1, 1), Line(1, 1)>>, 2 * VipPrice) }

Request(s, key) ==
  [concertId |-> s.concertId, tickets |-> s.tickets,
   totalAmount |-> s.totalAmount, idempotencyKey |-> key]

NoRequest ==
  [concertId |-> NoConcert, tickets |-> <<>>, totalAmount |-> 0,
   idempotencyKey |-> 0, userId |-> 0]

\* ------------------------------------------------------------------ state
VARIABLES
  tiers,        \* committed ticket_tiers rows, by id
  bookings,     \* committed bookings rows
  items,        \* committed booking_items rows
  rowLock,      \* ticket_tiers row lock: the holding attempt, or 0
  pc,           \* position of each attempt in createBooking
  dto,          \* the request of each attempt
  existing,     \* existingBooking.id of the idempotency lookup, or 0
  scan,         \* rows the pending SELECT ... FOR UPDATE still has to lock
  lockedTiers,  \* rows returned by lockTicketTiers
  cursor,       \* index of the next ticket in the inventory update loop
  tx,           \* uncommitted writes of the attempt's transaction
  paid,         \* number of processPayment calls of the attempt
  result,       \* what the attempt returned or threw
  client        \* the booking page: useBooking's state and the selections

vars == <<tiers, bookings, items, rowLock, pc, dto, existing, scan,
          lockedTiers, cursor, tx, paid, result, client>>

store == <<tiers, bookings, items>>

EmptyTx == [tiers |-> <<>>, bookings |-> {}, items |-> {}]

NoResult == [kind |-> "none", bookingId |-> 0, detail |-> <<>>]

\* the page as mounted: useState(() => crypto.randomUUID()) draws the key, no
\* tier is selected and the mutation is idle
Mounted(uuid) ==
  [idempotencyKey |-> uuid, selections |-> <<>>, status |-> "idle", data |-> 0]

InitOf(S) ==
  /\ tiers = SeedTiers
  /\ bookings = {}
  /\ items = {}
  /\ rowLock = [t \in TierIds |-> 0]
  /\ pc = [a \in S |-> "idle"]
  /\ dto = [a \in S |-> NoRequest]
  /\ existing = [a \in S |-> 0]
  /\ scan = [a \in S |-> <<>>]
  /\ lockedTiers = [a \in S |-> {}]
  /\ cursor = [a \in S |-> 0]
  /\ tx = [a \in S |-> EmptyTx]
  /\ paid = [a \in S |-> 0]
  /\ result = [a \in S |-> NoResult]
  /\ client = Mounted(1)

Init == InitOf(Attempts)

\* ---------------------------------------------------------------- helpers
Abs(x) == IF x < 0 THEN -x ELSE x

Perms(S) ==
  { s \in [1..Cardinality(S) -> S] : \A i, j \in DOMAIN s : s[i] = s[j] => i = j }

RECURSIVE SumOver(_, _)
SumOver(f(_), S) ==
  IF S = {} THEN 0
  ELSE LET x == CHOOSE y \in S : TRUE IN f(x) + SumOver(f, S \ {x})

AllAttempts == DOMAIN pc

\* total_amount is DECIMAL(10,2): the store rounds to the cent
RoundToCents(m) == ((m + 5) \div 10) * 10

\* the current version of a tier row as the attempt's own transaction sees it
TxTier(a, t) == IF t \in DOMAIN tx[a].tiers THEN tx[a].tiers[t] ELSE tiers[t]

HeldBy(a) == { t \in TierIds : rowLock[t] = a }

Release(a) == [t \in TierIds |-> IF rowLock[t] = a THEN 0 ELSE rowLock[t]]

\* ------------------------------------------------ BookingService.createBooking
TierIdsOf(d) == [i \in DOMAIN d.tickets |-> d.tickets[i].tierId]

Throw(a, kind, detail) ==
  /\ result' = [result EXCEPT ![a] = [kind |-> kind, bookingId |-> 0,
                                      detail |-> detail]]
  /\ pc' = [pc EXCEPT ![a] = "rollback"]

\* withTransaction: BEGIN, then SET LOCAL statement_timeout.  Attempts are
\* numbered in their order of arrival; the caller is user a.
BeginWith(a, d) ==
  /\ pc[a] = "idle"
  /\ \A b \in AllAttempts : b < a => pc[b] # "idle"
  /\ dto' = [dto EXCEPT ![a] = d @@ [userId |-> a]]
  /\ pc' = [pc EXCEPT ![a] = "findKey"]
  /\ UNCHANGED <<store, rowLock, existing, scan, lockedTiers, cursor, tx, paid,
                 result>>

\* the idempotency key is a fresh one (named after the attempt) or the key of
\* an earlier attempt
KeysFor(a) == {a} \cup { dto[b].idempotencyKey : b \in { c \in AllAttempts : c < a } }

Begin(a) ==
  /\ \E s \in Shapes, key \in KeysFor(a) : BeginWith(a, Request(s, key))
  /\ UNCHANGED client

\* mutant: the lookup only considers bookings that are still pending
FindKeyPendingOnly(key) ==
  { b \in bookings : b.idempotency_key = key /\ b.status = "pending" }

\* STEP 1: SELECT * FROM bookings WHERE idempotency_key = $1, which sees the
\* committed rows (the transaction has written none yet)
FindKey(key) == { b \in bookings : b.idempotency_key = key }

\* mutant: the lookup also compares the concert of the request
FindByIdempotencyKeyAndConcert(a) ==
  /\ pc[a] = "findKey"
  /\ LET found == { b \in FindKey(dto[a].idempotencyKey) :
                      b.concert_id = dto[a].concertId } IN
       IF found # {}
       THEN /\ existing' = [existing EXCEPT ![a] = (CHOOSE b \in found : TRUE).id]
            /\ pc' = [pc EXCEPT ![a] = "duplicate"]
       ELSE /\ pc' = [pc EXCEPT ![a] = "concert"]
            /\ UNCHANGED existing
  /\ UNCHANGED <<client, store, rowLock, dto, scan, lockedTiers, cursor, tx, paid, result>>

FindByIdempotencyKey(a) ==
  /\ pc[a] = "findKey"
  /\ LET found == FindKey(dto[a].idempotencyKey) IN
       IF found # {}
       THEN /\ existing' = [existing EXCEPT ![a] = (CHOOSE b \in found : TRUE).id]
            /\ pc' = [pc EXCEPT ![a] = "duplicate"]
       ELSE /\ pc' = [pc EXCEPT ![a] = "concert"]
            /\ UNCHANGED existing
  /\ UNCHANGED <<client, store, rowLock, dto, scan, lockedTiers, cursor, tx, paid, result>>

\* SELECT ... FROM bookings b ... WHERE b.id = $1 on a pool connection
FindById(id) == { b \in bookings : b.id = id }

\* findById through the pool, then return { duplicate: true }
ReturnDuplicate(a) ==
  /\ pc[a] = "duplicate"
  /\ result' = [result EXCEPT ![a] =
                  [kind |-> "duplicate", bookingId |-> existing[a],
                   detail |-> << { b.status : b \in FindById(existing[a]) } >>]]
  /\ pc' = [pc EXCEPT ![a] = "commit"]
  /\ UNCHANGED <<client, store, rowLock, dto, existing, scan, lockedTiers, cursor, tx, paid>>

\* the rows SELECT ... WHERE id = ANY($1) AND concert_id = $2 FOR UPDATE matches
MatchingTiers(d) ==
  { t \in TierIds :
      /\ \E i \in DOMAIN d.tickets : d.tickets[i].tierId = t
      /\ tiers[t].concert_id = d.concertId }

\* the order in which the statement visits (and locks) the matching rows: the
\* request passes tierIds as mapped from dto.tickets and the query has no
\* ORDER BY, so the order is the plan's
LockOrders(d) == Perms(MatchingTiers(d))

\* mutant: every concert id is taken to exist
ExistsAlways(concertId) == TRUE

\* concertRepository.exists: SELECT 1 FROM concerts WHERE id = $1
Exists(concertId) == concertId \in Concerts

\* STEP 2: concertRepository.exists; on success the lock statement is issued
ConcertExists(a) ==
  /\ pc[a] = "concert"
  /\ IF Exists(dto[a].concertId)
     THEN /\ \E order \in LockOrders(dto[a]) : scan' = [scan EXCEPT ![a] = order]
          /\ pc' = [pc EXCEPT ![a] = "lock"]
          /\ UNCHANGED result
     ELSE /\ Throw(a, "concert_not_found", <<>>)
          /\ UNCHANGED scan
  /\ UNCHANGED <<client, store, rowLock, dto, existing, lockedTiers, cursor, tx, paid>>

\* mutant: the SELECT takes no row lock (no FOR UPDATE)
CanLockAlways(a, t) == TRUE

\* a row lock is granted when no other transaction holds it
CanLock(a, t) == rowLock[t] \in {0, a}

\* mutant: the row is returned as it was before the wait (here, as seeded)
LockedRowStale(t) ==
  [id |-> t, available_quantity |-> SeedTiers[t].available_quantity,
   price |-> SeedTiers[t].price, version |-> SeedTiers[t].version]

\* the columns of the row as committed when the lock is granted: under READ
\* COMMITTED a FOR UPDATE that waited returns the row's latest version
LockedRow(t) ==
  [id |-> t, available_quantity |-> tiers[t].available_quantity,
   price |-> tiers[t].price, version |-> tiers[t].version]

\* mutant: the statement does not wait for a row another transaction holds
LockTicketTiersNoWait(a) ==
  /\ pc[a] = "lock"
  /\ scan[a] # <<>>
  /\ LET t == Head(scan[a]) IN
       /\ rowLock' = IF CanLock(a, t) THEN [rowLock EXCEPT ![t] = a] ELSE rowLock
       /\ lockedTiers' = [lockedTiers EXCEPT ![a] = @ \cup {LockedRow(t)}]
  /\ scan' = [scan EXCEPT ![a] = Tail(@)]
  /\ UNCHANGED <<client, store, pc, dto, existing, cursor, tx, paid, result>>

\* STEP 3: lockTicketTiers locks the next row of its scan and reads the row's
\* latest committed version
LockTicketTiers(a) ==
  /\ pc[a] = "lock"
  /\ scan[a] # <<>>
  /\ LET t == Head(scan[a]) IN
       /\ CanLock(a, t)
       /\ rowLock' = [rowLock EXCEPT ![t] = a]
       /\ lockedTiers' = [lockedTiers EXCEPT ![a] = @ \cup {LockedRow(t)}]
  /\ scan' = [scan EXCEPT ![a] = Tail(@)]
  /\ UNCHANGED <<client, store, pc, dto, existing, cursor, tx, paid, result>>

\* lines 83-91: lockedTiers.length !== tierIds.length
MissingIds(d, rows) ==
  SelectSeq(TierIdsOf(d), LAMBDA id : id \notin { r.id : r \in rows })

\* mutant: the number of rows is not compared
RowsShortIgnored(d, rows) == FALSE

RowsShort(d, rows) == Cardinality(rows) # Len(d.tickets)

\* lockedTiers.find(t => t.id === tierId)
FindTier(rows, id) == CHOOSE r \in rows : r.id = id

\* mutant: the check only asks whether anything is left
InsufficientIgnoringQuantity(tier, ticket) == tier.available_quantity <= 0

Insufficient(tier, ticket) == tier.available_quantity < ticket.quantity

SoldOut(tier) == tier.available_quantity = 0

\* mutant: the message carries the requested quantity in both places
CheckTicketRequestedTwice(rows, ticket) ==
  IF \A r \in rows : r.id # ticket.tierId
  THEN <<"tier_not_found", <<ticket.tierId>> >>
  ELSE LET tier == FindTier(rows, ticket.tierId) IN
       IF tier.available_quantity < ticket.quantity
       THEN <<"insufficient_inventory",
              <<tier.id, ticket.quantity, ticket.quantity>> >>
       ELSE <<"ok", <<>> >>

\* STEP 4, one iteration of the availability loop: the error it throws, or "ok"
CheckTicket(rows, ticket) ==
  IF \A r \in rows : r.id # ticket.tierId
  THEN <<"tier_not_found", <<ticket.tierId>> >>
  ELSE LET tier == FindTier(rows, ticket.tierId) IN
       IF Insufficient(tier, ticket)
       THEN <<"insufficient_inventory",
              <<tier.id, ticket.quantity, tier.available_quantity>> >>
       ELSE IF SoldOut(tier)
       THEN <<"sold_out", <<tier.id>> >>
       ELSE <<"ok", <<>> >>

\* the loop from ticket i on: the first error in request order, or "ok"
RECURSIVE CheckAvailability(_, _, _)
CheckAvailability(d, rows, i) ==
  IF i > Len(d.tickets) THEN <<"ok", <<>> >>
  ELSE LET r == CheckTicket(rows, d.tickets[i]) IN
       IF r[1] # "ok" THEN r ELSE CheckAvailability(d, rows, i + 1)

\* STEP 5: sum of Number(tier.price) * ticket.quantity over the request
RECURSIVE CalculatedFrom(_, _, _)
CalculatedFrom(d, rows, i) ==
  IF i > Len(d.tickets) THEN 0
  ELSE FindTier(rows, d.tickets[i].tierId).price * d.tickets[i].quantity
       + CalculatedFrom(d, rows, i + 1)

CalculatedTotal(d, rows) == CalculatedFrom(d, rows, 1)

\* mutant: only a claimed total that is too high is refused
AmountMismatchOverOnly(calculated, claimed) == claimed - calculated > Tolerance

AmountMismatch(calculated, claimed) == Abs(calculated - claimed) > Tolerance

\* what lines 83-141 decide once lockTicketTiers has returned
Validation(d, rows) ==
  IF RowsShort(d, rows)
  THEN <<"tier_not_found", MissingIds(d, rows)>>
  ELSE LET r == CheckAvailability(d, rows, 1) IN
       IF r[1] # "ok" THEN r
       ELSE IF AmountMismatch(CalculatedTotal(d, rows), d.totalAmount)
       THEN <<"amount_mismatch", <<CalculatedTotal(d, rows), d.totalAmount>> >>
       ELSE <<"ok", <<>> >>

\* mutant: the total is compared after the first ticket's decrement
ValidateBookingAfterDecrement(a) ==
  /\ pc[a] = "lock"
  /\ scan[a] = <<>>
  /\ LET v == Validation(dto[a], lockedTiers[a])
         first == dto[a].tickets[1]
     IN IF v[1] = "ok"
        THEN /\ pc' = [pc EXCEPT ![a] = "update"]
             /\ cursor' = [cursor EXCEPT ![a] = 1]
             /\ UNCHANGED <<result, tx>>
        ELSE /\ Throw(a, v[1], v[2])
             /\ tx' = IF v[1] = "amount_mismatch"
                      THEN [tx EXCEPT ![a].tiers =
                              (first.tierId :>
                                 [tiers[first.tierId] EXCEPT
                                    !.available_quantity = @ - first.quantity,
                                    !.version = @ + 1]) @@ @]
                      ELSE tx
             /\ UNCHANGED cursor
  /\ UNCHANGED <<client, store, rowLock, dto, existing, scan, lockedTiers, paid>>

\* STEPS 3-5 after the lock statement returned: all rows exist, availability,
\* total amount
ValidateBooking(a) ==
  /\ pc[a] = "lock"
  /\ scan[a] = <<>>
  /\ LET v == Validation(dto[a], lockedTiers[a]) IN
       IF v[1] = "ok"
       THEN /\ pc' = [pc EXCEPT ![a] = "update"]
            /\ cursor' = [cursor EXCEPT ![a] = 1]
            /\ UNCHANGED result
       ELSE /\ Throw(a, v[1], v[2])
            /\ UNCHANGED cursor
  /\ UNCHANGED <<client, store, rowLock, dto, existing, scan, lockedTiers, tx, paid>>

\* check_quantity and check_total of ticket_tiers
TierConstraints(row) ==
  /\ row.available_quantity >= 0
  /\ row.total_quantity >= row.available_quantity

\* mutant: the statement does not touch the version
DecrementedRowSameVersion(row, quantity) ==
  [row EXCEPT !.available_quantity = @ - quantity]

\* mutant: the decrement ignores the booked quantity
DecrementedByOne(row, quantity) ==
  [row EXCEPT !.available_quantity = @ - 1, !.version = @ + 1]

\* UPDATE ticket_tiers SET available_quantity = available_quantity - $1,
\* version = version + 1
DecrementedRow(row, quantity) ==
  [row EXCEPT !.available_quantity = @ - quantity, !.version = @ + 1]

\* mutant: the loop stops after the first ticket
MoreTicketsNever(d, i) == FALSE

\* for (const ticket of dto.tickets): tickets remain after the i-th
MoreTickets(d, i) == i < Len(d.tickets)

\* STEP 6: one updateTierInventory of the loop.  The UPDATE needs the row lock
\* and a row that breaks a CHECK constraint fails the statement (23514).
UpdateTierInventory(a) ==
  /\ pc[a] = "update"
  /\ LET ticket == dto[a].tickets[cursor[a]]
         t == ticket.tierId
         row == DecrementedRow(TxTier(a, t), ticket.quantity)
     IN /\ CanLock(a, t)
        /\ rowLock' = [rowLock EXCEPT ![t] = a]
        /\ IF TierConstraints(row)
           THEN /\ tx' = [tx EXCEPT ![a].tiers = (t :> row) @@ @]
                /\ cursor' = [cursor EXCEPT ![a] = @ + 1]
                /\ pc' = [pc EXCEPT ![a] =
                            IF MoreTickets(dto[a], cursor[a])
                            THEN "update" ELSE "createBooking"]
                /\ UNCHANGED result
           ELSE /\ Throw(a, "check_violation", <<t>>)
                /\ UNCHANGED <<tx, cursor>>
  /\ UNCHANGED <<client, store, dto, existing, scan, lockedTiers, paid>>

\* mutant: no UNIQUE constraint
KeyNeverCommitted(key) == FALSE

\* the UNIQUE constraint on bookings.idempotency_key finds a committed row
KeyCommitted(key) == \E b \in bookings : b.idempotency_key = key

\* other transactions holding an uncommitted row with the key: the insert
\* waits for them to end
KeyPending(a, key) ==
  { b \in AllAttempts \ {a} : \E r \in tx[b].bookings : r.idempotency_key = key }

BookingRow(a, d, status) ==
  [id |-> a, concert_id |-> d.concertId, user_id |-> d.userId,
   idempotency_key |-> d.idempotencyKey, status |-> status,
   total_amount |-> RoundToCents(d.totalAmount)]

\* STEP 7: INSERT INTO bookings, status 'pending'; the id is booking_<uuid>,
\* here the attempt's number
CreateBooking(a) ==
  /\ pc[a] = "createBooking"
  /\ IF KeyCommitted(dto[a].idempotencyKey)
     THEN /\ Throw(a, "unique_violation", <<dto[a].idempotencyKey>>)
          /\ UNCHANGED tx
     ELSE /\ KeyPending(a, dto[a].idempotencyKey) = {}
          /\ tx' = [tx EXCEPT ![a].bookings = {BookingRow(a, dto[a], "pending")}]
          /\ pc' = [pc EXCEPT ![a] = "createItems"]
          /\ UNCHANGED result
  /\ UNCHANGED <<client, store, rowLock, dto, existing, scan, lockedTiers, cursor, paid>>

\* STEP 8: one booking_items row per ticket, priced from lockedTiers
BookingItems(a, d, rows) ==
  { [id |-> <<a, i>>, booking_id |-> a, tier_id |-> d.tickets[i].tierId,
     quantity |-> d.tickets[i].quantity,
     price_per_ticket |-> FindTier(rows, d.tickets[i].tierId).price] :
      i \in DOMAIN d.tickets }

CreateBookingItems(a) ==
  /\ pc[a] = "createItems"
  /\ tx' = [tx EXCEPT ![a].items = BookingItems(a, dto[a], lockedTiers[a])]
  /\ pc' = [pc EXCEPT ![a] = "payment"]
  /\ UNCHANGED <<client, store, rowLock, dto, existing, scan, lockedTiers, cursor, paid,
                 result>>

\* mutant: the payment is taken before the items are inserted
ProcessPaymentBeforeItems(a) ==
  /\ pc[a] = "createItems"
  /\ paid' = [paid EXCEPT ![a] = @ + 1]
  /\ \E paymentSuccess \in BOOLEAN :
       pc' = [pc EXCEPT ![a] = IF paymentSuccess THEN "confirm" ELSE "failed"]
  /\ UNCHANGED <<client, store, rowLock, dto, existing, scan, lockedTiers, cursor, tx,
                 result>>

\* STEP 9: paymentService.processPayment succeeds or fails
ProcessPayment(a) ==
  /\ pc[a] = "payment"
  /\ paid' = [paid EXCEPT ![a] = @ + 1]
  /\ \E paymentSuccess \in BOOLEAN :
       pc' = [pc EXCEPT ![a] = IF paymentSuccess THEN "confirm" ELSE "failed"]
  /\ UNCHANGED <<client, store, rowLock, dto, existing, scan, lockedTiers, cursor, tx,
                 result>>

\* mutant: the status update changes no row
UpdateBookingStatusIgnored(rows, id, status) == rows

\* UPDATE bookings SET status = $1 WHERE id = $2
UpdateBookingStatus(rows, id, status) ==
  { IF r.id = id THEN [r EXCEPT !.status = status] ELSE r : r \in rows }

\* mutant: the failure is recorded and reported but not thrown
PaymentFailedNotThrown(a) ==
  /\ pc[a] = "failed"
  /\ tx' = [tx EXCEPT ![a].bookings = UpdateBookingStatus(@, a, "failed")]
  /\ result' = [result EXCEPT ![a] = [kind |-> "payment_failed",
                                      bookingId |-> 0, detail |-> <<>>]]
  /\ pc' = [pc EXCEPT ![a] = "commit"]
  /\ UNCHANGED <<client, store, rowLock, dto, existing, scan, lockedTiers, cursor, paid>>

\* lines 192-207: status 'failed', then throw PAYMENT_FAILED
PaymentFailed(a) ==
  /\ pc[a] = "failed"
  /\ tx' = [tx EXCEPT ![a].bookings = UpdateBookingStatus(@, a, "failed")]
  /\ Throw(a, "payment_failed", <<>>)
  /\ UNCHANGED <<client, store, rowLock, dto, existing, scan, lockedTiers, cursor, paid>>

\* STEP 10: status 'confirmed'
ConfirmBooking(a) ==
  /\ pc[a] = "confirm"
  /\ tx' = [tx EXCEPT ![a].bookings = UpdateBookingStatus(@, a, "confirmed")]
  /\ pc' = [pc EXCEPT ![a] = "fetch"]
  /\ UNCHANGED <<client, store, rowLock, dto, existing, scan, lockedTiers, cursor, paid,
                 result>>

\* STEP 11: findByIdWithinTransaction reads the transaction's own row
FetchBooking(a) ==
  /\ pc[a] = "fetch"
  /\ LET found == { b \in tx[a].bookings \cup bookings : b.id = a } IN
       IF found = {}
       THEN Throw(a, "internal", <<>>)
       ELSE /\ result' = [result EXCEPT ![a] =
                            [kind |-> "created", bookingId |-> a,
                             detail |-> << { b.status : b \in found } >>]]
            /\ pc' = [pc EXCEPT ![a] = "commit"]
  /\ UNCHANGED <<client, store, rowLock, dto, existing, scan, lockedTiers, cursor, tx, paid>>

\* ------------------------------------------------------------ withTransaction
EndTransaction(a) ==
  /\ rowLock' = Release(a)
  /\ pc' = [pc EXCEPT ![a] = "done"]
  /\ tx' = [tx EXCEPT ![a] = EmptyTx]
  /\ scan' = [scan EXCEPT ![a] = <<>>]
  /\ lockedTiers' = [lockedTiers EXCEPT ![a] = {}]
  /\ cursor' = [cursor EXCEPT ![a] = 0]
  /\ UNCHANGED <<client, dto, existing, paid, result>>

\* COMMIT: the transaction's writes become the committed rows, all at once
Commit(a) ==
  /\ pc[a] = "commit"
  /\ tiers' = [t \in TierIds |-> TxTier(a, t)]
  /\ bookings' = bookings \cup tx[a].bookings
  /\ items' = items \cup tx[a].items
  /\ EndTransaction(a)

\* mutant: the booking row written before the throw outlives the transaction
RollbackKeepingBooking(a) ==
  /\ pc[a] = "rollback"
  /\ bookings' = bookings \cup tx[a].bookings
  /\ UNCHANGED <<tiers, items>>
  /\ EndTransaction(a)

\* ROLLBACK after the callback threw: every write of the transaction is dropped
Rollback(a) ==
  /\ pc[a] = "rollback"
  /\ UNCHANGED store
  /\ EndTransaction(a)

\* ------------------------------------------------------------- waiting
\* the transaction whose end attempt a is waiting for, or 0
Blocker(a) ==
  IF pc[a] = "lock" /\ scan[a] # <<>> /\ ~CanLock(a, Head(scan[a]))
  THEN rowLock[Head(scan[a])]
  ELSE IF pc[a] = "update" /\ ~CanLock(a, dto[a].tickets[cursor[a]].tierId)
  THEN rowLock[dto[a].tickets[cursor[a]].tierId]
  ELSE IF /\ pc[a] = "createBooking"
          /\ ~KeyCommitted(dto[a].idempotencyKey)
          /\ KeyPending(a, dto[a].idempotencyKey) # {}
  THEN CHOOSE b \in KeyPending(a, dto[a].idempotencyKey) : TRUE
  ELSE 0

RECURSIVE Reaches(_, _, _)
Reaches(a, b, n) ==
  /\ n > 0
  /\ Blocker(a) # 0
  /\ \/ Blocker(a) = b
     \/ Reaches(Blocker(a), b, n - 1)

\* a waits in a cycle of transactions that wait for each other
InWaitCycle(a) == Reaches(a, a, Cardinality(AllAttempts))

\* mutant: no statement timeout is set
StatementTimeoutOff(a) ==
  /\ FALSE
  /\ UNCHANGED vars

\* statement_timeout = 3000 cancels a statement that is still waiting (57014)
StatementTimeout(a) ==
  /\ Blocker(a) # 0
  /\ Throw(a, "statement_timeout", <<>>)
  /\ UNCHANGED <<client, store, rowLock, dto, existing, scan, lockedTiers, cursor, tx, paid>>

\* the store's deadlock detector aborts a statement of a wait cycle (40P01)
DeadlockDetected(a) ==
  /\ InWaitCycle(a)
  /\ Throw(a, "deadlock_detected", <<>>)
  /\ UNCHANGED <<client, store, rowLock, dto, existing, scan, lockedTiers, cursor, tx, paid>>

\* ------------------------------------------------- errors and responses
NodeEnvs == {"production", "development", "test"}

AppErrorClasses ==
  {"AppError", "NotFoundError", "AlreadyExistsError", "ValidationError",
   "UnauthorizedError", "ForbiddenError", "DatabaseError", "ConflictError",
   "ServiceUnavailableError", "BadRequestError"}

NotFoundError(message, resource) ==
  [class |-> "NotFoundError", statusCode |-> 404, code |-> "",
   message |-> message, resource |-> resource]

BadRequestError(message) ==
  [class |-> "BadRequestError", statusCode |-> 400, code |-> "",
   message |-> message, resource |-> ""]

\* an error of the pg driver: it carries the SQLSTATE as code, and a severity
PostgresError(code, message) ==
  [class |-> "DatabaseError(pg)", statusCode |-> 0, code |-> code,
   message |-> message, resource |-> ""]

\* throw new Error('Booking creation failed: booking not found after insert')
PlainError(message) ==
  [class |-> "Error", statusCode |-> 0, code |-> "", message |-> message,
   resource |-> ""]

\* the error createBooking throws (or the store raises) for a result kind
ErrorOf(kind) ==
  CASE kind = "concert_not_found" -> NotFoundError("Concert not found", "concert")
    [] kind = "tier_not_found" -> NotFoundError("Ticket tiers not found", "ticket_tier")
    [] kind = "insufficient_inventory" -> BadRequestError("Only n tickets remaining")
    [] kind = "sold_out" -> BadRequestError("tickets are sold out")
    [] kind = "amount_mismatch" -> BadRequestError("Total amount mismatch")
    [] kind = "payment_failed" -> BadRequestError("Payment processing failed")
    [] kind = "unique_violation" -> PostgresError("23505", "duplicate key value")
    [] kind = "check_violation" -> PostgresError("23514", "violates check constraint")
    [] kind = "statement_timeout" ->
         PostgresError("57014", "canceling statement due to statement timeout")
    [] kind = "deadlock_detected" -> PostgresError("40P01", "deadlock detected")
    [] OTHER -> PlainError("Booking creation failed")

\* mutant: the instance keeps the prototype of the class that was constructed
PrototypeOfSubclass(err) == err.class

\* AppError's constructor ends with Object.setPrototypeOf(this,
\* AppError.prototype), also when a subclass constructor called it
PrototypeOf(err) ==
  IF err.class \in AppErrorClasses THEN "AppError" ELSE err.class

\* err instanceof cls
InstanceOf(err, cls) ==
  \/ cls = PrototypeOf(err)
  \/ cls = "Error"

\* isPostgresError: 'code' in error, 'severity' in error, code is a string
IsPostgresError(err) == err.class = "DatabaseError(pg)"

\* ResponseUtil.notFound: the message is rebuilt from resource and identifier
NotFoundResponse(err) ==
  [via |-> "notFound", status |-> 404, success |-> FALSE,
   message |-> IF err.resource # "" THEN "resource with identifier not found"
               ELSE err.message]

\* mutant: the switch has no case for the unique violation
PostgresResponseDefaultOnly(err, env) ==
  [via |-> "databaseError", status |-> 500, success |-> FALSE,
   message |-> IF env = "production" THEN "Database operation failed"
               ELSE err.message]

\* switch (err.code) of the handler's PostgreSQL branch
PostgresResponse(err, env) ==
  CASE err.code = "23505" ->
         [via |-> "conflict", status |-> 409, success |-> FALSE,
          message |-> "Duplicate entry"]
    [] err.code = "23503" ->
         [via |-> "databaseError", status |-> 400, success |-> FALSE,
          message |-> "Foreign key constraint failed"]
    [] err.code = "23502" ->
         [via |-> "databaseError", status |-> 400, success |-> FALSE,
          message |-> "Required field missing"]
    [] err.code = "23514" ->
         [via |-> "databaseError", status |-> 400, success |-> FALSE,
          message |-> "Data validation failed"]
    [] err.code = "42P01" ->
         [via |-> "error", status |-> 500, success |-> FALSE,
          message |-> "Internal server error"]
    [] err.code \in {"08006", "08003"} ->
         [via |-> "serviceUnavailable", status |-> 503, success |-> FALSE,
          message |-> "Service temporarily unavailable"]
    [] err.code = "40001" ->
         [via |-> "conflict", status |-> 409, success |-> FALSE,
          message |-> "Concurrent transaction conflict, please retry"]
    [] err.code = "55P03" ->
         [via |-> "conflict", status |-> 409, success |-> FALSE,
          message |-> "Resource is currently being modified, please retry"]
    [] OTHER ->
         [via |-> "databaseError", status |-> 500, success |-> FALSE,
          message |-> IF env = "production" THEN "Database operation failed"
                      ELSE err.message]

\* errorHandler: the first branch whose test the error passes
ErrorHandler(err, env) ==
  IF InstanceOf(err, "ZodError") \/ InstanceOf(err, "ValidationError")
  THEN [via |-> "validationError", status |-> 400, success |-> FALSE,
        message |-> err.message]
  ELSE IF InstanceOf(err, "NotFoundError") THEN NotFoundResponse(err)
  ELSE IF InstanceOf(err, "UnauthorizedError")
  THEN [via |-> "unauthorized", status |-> 401, success |-> FALSE,
        message |-> err.message]
  ELSE IF InstanceOf(err, "ForbiddenError")
  THEN [via |-> "forbidden", status |-> 403, success |-> FALSE,
        message |-> err.message]
  ELSE IF InstanceOf(err, "AlreadyExistsError") \/ InstanceOf(err, "ConflictError")
  THEN [via |-> "conflict", status |-> 409, success |-> FALSE,
        message |-> err.message]
  ELSE IF InstanceOf(err, "DatabaseError")
  THEN [via |-> "databaseError", status |-> err.statusCode, success |-> FALSE,
        message |-> err.message]
  ELSE IF InstanceOf(err, "ServiceUnavailableError")
  THEN [via |-> "serviceUnavailable", status |-> 503, success |-> FALSE,
        message |-> err.message]
  ELSE IF InstanceOf(err, "BadRequestError")
  THEN [via |-> "badRequest", status |-> 400, success |-> FALSE,
        message |-> err.message]
  ELSE IF IsPostgresError(err) THEN PostgresResponse(err, env)
  ELSE IF InstanceOf(err, "AppError")
  THEN [via |-> "error", status |-> err.statusCode, success |-> FALSE,
        message |-> err.message]
  ELSE [via |-> "error", status |-> 500, success |-> FALSE,
        message |-> IF env = "production" THEN "Internal server error"
                    ELSE err.message]

\* mutant: the flag is never set
DuplicateUnset(r) == FALSE

\* the duplicate flag of the CreateBookingResult
Duplicate(r) == r.kind = "duplicate"

\* BookingController.createBooking: 200 for a duplicate, 201 for a new booking
CreateBookingResponse(r) ==
  IF Duplicate(r)
  THEN [via |-> "success", status |-> 200, success |-> TRUE,
        message |-> "This booking has already been processed"]
  ELSE [via |-> "success", status |-> 201, success |-> TRUE,
        message |-> "Booking created successfully"]

\* the result kinds that stand for a thrown error
ErrorKinds ==
  {"concert_not_found", "tier_not_found", "insufficient_inventory", "sold_out",
   "amount_mismatch", "payment_failed", "unique_violation", "check_violation",
   "statement_timeout", "deadlock_detected", "internal"}

\* the handler's answer to each error of createBooking, in each environment
ErrorAnswer ==
  [kind \in ErrorKinds, env \in NodeEnvs |-> ErrorHandler(ErrorOf(kind), env)]

\* what the caller of POST /bookings is answered once the attempt has ended
Respond(r, env) ==
  IF r.kind \in {"created", "duplicate"} THEN CreateBookingResponse(r)
  ELSE ErrorAnswer[r.kind, env]

\* BookingService.getBookingById on the committed rows: the booking with its
\* items, or found = FALSE where it throws the NotFoundError
GetBookingById(id) ==
  LET found == FindById(id) IN
    IF found = {}
    THEN [found |-> FALSE, id |-> 0, status |-> "", items |-> {}]
    ELSE LET b == CHOOSE r \in found : TRUE IN
         [found |-> TRUE, id |-> b.id, status |-> b.status,
          items |-> { i \in items : i.booking_id = b.id }]

\* the handler's answer to getBookingById's NotFoundError
BookingNotFoundAnswer ==
  [env \in NodeEnvs |->
     ErrorHandler(NotFoundError("Booking not found", "booking"), env)]

\* BookingController.getBookingById, or the error handler's answer
GetBookingByIdResponse(got, env) ==
  IF got.found
  THEN [via |-> "success", status |-> 200, success |-> TRUE,
        message |-> "Booking details retrieved successfully"]
  ELSE BookingNotFoundAnswer[env]

\* ------------------------------------------------------------ specification
Step(a) ==
  \/ Begin(a)
  \/ FindByIdempotencyKey(a)
  \/ ReturnDuplicate(a)
  \/ ConcertExists(a)
  \/ LockTicketTiers(a)
  \/ ValidateBooking(a)
  \/ UpdateTierInventory(a)
  \/ CreateBooking(a)
  \/ CreateBookingItems(a)
  \/ ProcessPayment(a)
  \/ PaymentFailed(a)
  \/ ConfirmBooking(a)
  \/ FetchBooking(a)
  \/ Commit(a)
  \/ Rollback(a)
  \/ StatementTimeout(a)
  \/ DeadlockDetected(a)

Next == \E a \in Attempts : Step(a)

Spec == Init /\ [][Next]_vars

\* a step of a started attempt: the service, the store or the payment call
Progress(a) ==
  \/ FindByIdempotencyKey(a)
  \/ ReturnDuplicate(a)
  \/ ConcertExists(a)
  \/ LockTicketTiers(a)
  \/ ValidateBooking(a)
  \/ UpdateTierInventory(a)
  \/ CreateBooking(a)
  \/ CreateBookingItems(a)
  \/ ProcessPayment(a)
  \/ PaymentFailed(a)
  \/ ConfirmBooking(a)
  \/ FetchBooking(a)
  \/ Commit(a)
  \/ Rollback(a)
  \/ StatementTimeout(a)
  \/ DeadlockDetected(a)

\* Requests for a tier that sells out: the first line asks for all of tier 2,
\* the second for three of tier 1; or three of tier 1 alone.
AvailabilityShapes ==
  { Shape(Concert, <<Line(2, FrontRowTotal), Line(1, ContentionQuantity)>>,
          FrontRowTotal * FrontRowPrice + ContentionQuantity * VipPrice),
    Shape(Concert, <<Line(1, ContentionQuantity)>>, ContentionQuantity * VipPrice) }

BeginAvailability(a) ==
  /\ \E s \in AvailabilityShapes, key \in KeysFor(a) : BeginWith(a, Request(s, key))
  /\ UNCHANGED client

NextAvailability == \E a \in Attempts : BeginAvailability(a) \/ Progress(a)

SpecAvailability == Init /\ [][NextAvailability]_vars

\* The contention test: three concurrent requests with distinct keys, each for
\* three tickets of tier 1, which has five left.
ContentionAttempts == 1..ContentionRequests

ContentionShape ==
  Shape(Concert, <<Line(1, ContentionQuantity)>>, ContentionQuantity * VipPrice)

BeginContention(a) ==
  /\ BeginWith(a, Request(ContentionShape, a))
  /\ UNCHANGED client

InitContention == InitOf(ContentionAttempts)

NextContention ==
  \E a \in ContentionAttempts :
    \/ BeginContention(a)
    \/ FindByIdempotencyKey(a)
    \/ ConcertExists(a)
    \/ LockTicketTiers(a)
    \/ ValidateBooking(a)
    \/ UpdateTierInventory(a)
    \/ CreateBooking(a)
    \/ CreateBookingItems(a)
    \/ ProcessPayment(a)
    \/ PaymentFailed(a)
    \/ ConfirmBooking(a)
    \/ FetchBooking(a)
    \/ Commit(a)
    \/ Rollback(a)
    \/ StatementTimeout(a)

SpecContention == InitContention /\ [][NextContention]_vars

\* a step of the store or of the service, but not the return of processPayment
DatabaseStep(a) ==
  \/ BeginContention(a)
  \/ FindByIdempotencyKey(a)
  \/ ConcertExists(a)
  \/ LockTicketTiers(a)
  \/ ValidateBooking(a)
  \/ UpdateTierInventory(a)
  \/ CreateBooking(a)
  \/ CreateBookingItems(a)
  \/ PaymentFailed(a)
  \/ ConfirmBooking(a)
  \/ FetchBooking(a)
  \/ Commit(a)
  \/ Rollback(a)
  \/ StatementTimeout(a)

\* The contention test with a payment call that may take any time or hang:
\* every statement is eventually answered or cancelled and the transaction is
\* eventually ended, but nothing makes processPayment return.
SpecHungPayment ==
  SpecContention /\ \A a \in ContentionAttempts : WF_vars(DatabaseStep(a))

\* ------------------------------------------------------- the booking page
\* One browser tab on ConcertPage: its submissions are createBooking calls
\* with the key held by useBooking.
ClientCalls == 1..MaxSubmissions

\* the selections with a positive quantity, as handleSubmit lists them
ClientSelections == { <<Line(1, 1)>>, <<Line(2, 1), Line(1, 1)>> }

\* calculateTotal: the sum of tier.price * quantity over the selections
RECURSIVE CalculateTotal(_)
CalculateTotal(sel) ==
  IF sel = <<>> THEN 0
  ELSE tiers[Head(sel).tierId].price * Head(sel).quantity + CalculateTotal(Tail(sel))

\* the page is loaded again: useBooking draws a new key
Mount ==
  /\ client.status # "pending"
  /\ client.idempotencyKey < MaxMounts
  /\ client' = Mounted(client.idempotencyKey + 1)
  /\ UNCHANGED <<store, rowLock, pc, dto, existing, scan, lockedTiers, cursor, tx,
                 paid, result>>

\* TierCard's onQuantityChange; the form is replaced by BookingSuccess while
\* the mutation is in its success state
HandleQuantityChange(sel) ==
  /\ client.status \in {"idle", "error"}
  /\ client.selections # sel
  /\ client' = [client EXCEPT !.selections = sel]
  /\ UNCHANGED <<store, rowLock, pc, dto, existing, scan, lockedTiers, cursor, tx,
                 paid, result>>

\* handleSubmit: the button is disabled without selections and while the
\* mutation is pending; mutationFn injects the hook's idempotencyKey
HandleSubmit(a) ==
  /\ client.status \in {"idle", "error"}
  /\ client.selections # <<>>
  /\ BeginWith(a, [concertId |-> Concert, tickets |-> client.selections,
                    totalAmount |-> CalculateTotal(client.selections),
                    idempotencyKey |-> client.idempotencyKey])
  /\ client' = [client EXCEPT !.status = "pending"]

\* the mutation settles with the response of the latest call
MutationSettled(a) ==
  /\ client.status = "pending"
  /\ pc[a] = "done"
  /\ \A b \in AllAttempts : b > a => pc[b] = "idle"
  /\ client' = IF result[a].kind \in {"created", "duplicate"}
               THEN [client EXCEPT !.status = "success", !.data = result[a].bookingId]
               ELSE [client EXCEPT !.status = "error"]
  /\ UNCHANGED <<store, rowLock, pc, dto, existing, scan, lockedTiers, cursor, tx,
                 paid, result>>

\* handleNewBooking: setSelections({}) and booking.reset()
HandleNewBooking ==
  /\ client.status = "success"
  /\ client' = [client EXCEPT !.selections = <<>>, !.status = "idle", !.data = 0]
  /\ UNCHANGED <<store, rowLock, pc, dto, existing, scan, lockedTiers, cursor, tx,
                 paid, result>>

InitClient == InitOf(ClientCalls)

NextClient ==
  \/ Mount
  \/ \E sel \in ClientSelections : HandleQuantityChange(sel)
  \/ HandleNewBooking
  \/ \E a \in ClientCalls :
       \/ HandleSubmit(a)
       \/ MutationSettled(a)
       \/ FindByIdempotencyKey(a)
       \/ ReturnDuplicate(a)
       \/ ConcertExists(a)
       \/ LockTicketTiers(a)
       \/ ValidateBooking(a)
       \/ UpdateTierInventory(a)
       \/ CreateBooking(a)
       \/ CreateBookingItems(a)
       \/ ProcessPayment(a)
       \/ PaymentFailed(a)
       \/ ConfirmBooking(a)
       \/ FetchBooking(a)
       \/ Commit(a)
       \/ Rollback(a)

SpecClient == InitClient /\ [][NextClient]_vars

\* ------------------------------------------------------------- properties
Quiescent == \A a \in AllAttempts : pc[a] \in {"idle", "done"}

Finished(a) == pc[a] = "done"

ConfirmedIds == { b.id : b \in { r \in bookings : r.status = "confirmed" } }

ItemQuantity(i) == i.quantity

\* tickets of tier t sold by the committed items of the bookings in ids
SoldBy(t, ids) ==
  SumOver(ItemQuantity, { i \in items : i.tier_id = t /\ i.booking_id \in ids })

\* C1: every tier row, committed or written inside a transaction, has
\* 0 <= available_quantity <= total_quantity, and no attempt ever asks the
\* store for a decrement that the CHECK constraints have to refuse.
C1_InventoryWithinBounds ==
  /\ \A t \in TierIds : TierConstraints(tiers[t])
  /\ \A a \in AllAttempts :
       /\ \A t \in DOMAIN tx[a].tiers : TierConstraints(tx[a].tiers[t])
       /\ result[a].kind # "check_violation"

\* C1 witness: a tier is sold out and a later attempt that asked for more than
\* is left has been turned away
C1_Witness ==
  /\ tiers[2].available_quantity = 0
  /\ \E a \in AllAttempts :
       Finished(a) /\ result[a].kind = "insufficient_inventory"

\* C2: at every quiescent point each tier's available_quantity is its
\* total_quantity minus the quantities of the items of confirmed bookings.
C2_Conservation ==
  Quiescent =>
    \A t \in TierIds :
      tiers[t].available_quantity =
        tiers[t].total_quantity - SoldBy(t, ConfirmedIds)

\* C2 witness: quiescent, with one confirmed booking and one attempt rolled
\* back after its payment failed
C2_Witness ==
  /\ Quiescent
  /\ ConfirmedIds # {}
  /\ \E a \in AllAttempts : Finished(a) /\ result[a].kind = "payment_failed"

\* attempt a takes a step
Moved(a) == pc'[a] # pc[a] \/ scan'[a] # scan[a] \/ cursor'[a] # cursor[a]

CommittedIds == { b.id : b \in bookings }

\* every tier's committed decrement is the sum of the committed items on it
Balanced ==
  \A t \in TierIds :
    tiers[t].total_quantity - tiers[t].available_quantity = SoldBy(t, CommittedIds)

OnReplayPath(a) == pc[a] = "duplicate" \/ result[a].kind = "duplicate"

C3_ReplayState ==
  \A a \in AllAttempts :
    OnReplayPath(a) =>
      /\ HeldBy(a) = {}
      /\ DOMAIN tx[a].tiers = {} /\ tx[a].bookings = {} /\ tx[a].items = {}
      /\ lockedTiers[a] = {}
      /\ paid[a] = 0
      /\ \E b \in bookings :
           /\ b.idempotency_key = dto[a].idempotencyKey
           /\ b.id = existing[a]
           /\ b.id # a
           /\ result[a].kind = "duplicate" => result[a].bookingId = b.id
      /\ Balanced

C3_ReplayStep ==
  \A a \in AllAttempts :
    /\ (pc[a] = "findKey" /\ KeyCommitted(dto[a].idempotencyKey) /\ Moved(a))
         => pc'[a] = "duplicate"
    /\ (OnReplayPath(a) /\ Moved(a))
         => /\ store' = store
            /\ rowLock' = rowLock
            /\ paid' = paid
            /\ pc'[a] \in {"commit", "done"}

\* C3: once a booking with key k is committed, an attempt that then looks k up
\* takes the duplicate path; on that path it returns the committed booking's
\* id, holds no row lock, calls no payment and writes nothing, so the inventory
\* carries the booking's decrement exactly once.
C3_IdempotentReplay == [](C3_ReplayState) /\ [][C3_ReplayStep]_vars

\* C3 witness: a finished duplicate of the single committed booking
C3_Witness ==
  \E a \in AllAttempts :
    /\ Finished(a) /\ result[a].kind = "duplicate"
    /\ Cardinality(bookings) = 1
    /\ \E t \in TierIds : tiers[t].available_quantity < tiers[t].total_quantity

\* C4: at most one committed booking row per idempotency key, and the
\* committed decrement of every tier is the sum of the items of the committed
\* bookings (one per key), whatever the interleaving of the submissions.
C4_OneBookingPerKey ==
  /\ \A b1, b2 \in bookings :
       b1.idempotency_key = b2.idempotency_key => b1.id = b2.id
  /\ \A i \in items : i.booking_id \in CommittedIds
  /\ Balanced

\* C4 witness: two first submissions of one key both passed the lookup; one
\* committed and the other was refused by the unique constraint
C4_Witness ==
  \E a, b \in AllAttempts :
    /\ a # b
    /\ dto[a].idempotencyKey = dto[b].idempotencyKey
    /\ Finished(a) /\ result[a].kind = "created"
    /\ Finished(b) /\ result[b].kind = "unique_violation"

C5_FailedState ==
  \A a \in AllAttempts :
    result[a].kind = "payment_failed" =>
      /\ paid[a] = 1
      /\ \A b \in bookings : b.id # a /\ b.user_id # dto[a].userId
      /\ \A b \in FindKey(dto[a].idempotencyKey) : b.id # a
      /\ \A i \in items : i.booking_id # a

C5_FailedStep ==
  \A a \in AllAttempts :
    /\ (pc[a] = "failed" /\ Moved(a))
         => pc'[a] = "rollback" /\ result'[a].kind = "payment_failed"
    /\ (result[a].kind = "payment_failed" /\ Moved(a))
         => pc'[a] = "done" /\ \A t \in TierIds : rowLock'[t] # a
    /\ (Moved(a) /\ pc[a] # "commit") => store' = store

\* C5: an attempt whose payment failed ends with the payment-failed error; no
\* step it takes changes a committed tier, booking or item, and no row of it
\* is retrievable by id, key or user.
C5_PaymentFailureAtomic == [](C5_FailedState) /\ [][C5_FailedStep]_vars

\* C5 witness: an attempt that had decremented a tier and inserted its rows
\* has ended with payment failed, and the tiers are as seeded
C5_Witness ==
  \E a \in AllAttempts :
    /\ Finished(a) /\ result[a].kind = "payment_failed"
    /\ tiers = SeedTiers /\ bookings = {}

RequestedLines(d) ==
  { <<d.tickets[k].tierId, d.tickets[k].quantity>> : k \in DOMAIN d.tickets }

\* C6: in every committed state a booking has either all its lines as items
\* and every tier carries the matching decrement, or it has no row, no item
\* and no decrement at all.
C6_MultiTierAtomic ==
  /\ \A a \in AllAttempts :
       LET mine == { i \in items : i.booking_id = a } IN
         IF a \in CommittedIds
         THEN /\ { <<i.tier_id, i.quantity>> : i \in mine } = RequestedLines(dto[a])
              /\ Cardinality(mine) = Len(dto[a].tickets)
         ELSE mine = {}
  /\ Balanced

\* C6 witness: one two-tier booking is committed with both items and both
\* decrements, and another two-tier attempt was rolled back after it had
\* decremented both tiers and inserted its rows
C6_Witness ==
  \E a, b \in AllAttempts :
    /\ Len(dto[a].tickets) = 2 /\ Finished(a) /\ result[a].kind = "created"
    /\ Cardinality({ i \in items : i.booking_id = a }) = 2
    /\ \A k \in DOMAIN dto[a].tickets :
         tiers[dto[a].tickets[k].tierId].available_quantity =
           tiers[dto[a].tickets[k].tierId].total_quantity - dto[a].tickets[k].quantity
    /\ Len(dto[b].tickets) = 2 /\ Finished(b) /\ result[b].kind = "payment_failed"

AllDone == \A a \in AllAttempts : Finished(a)

Ended(kind) == { a \in AllAttempts : Finished(a) /\ result[a].kind = kind }

C8_SoldOutReported ==
  \A a \in AllAttempts :
    ( /\ pc[a] = "rollback"
      /\ result[a].kind \in {"insufficient_inventory", "sold_out"}
      /\ \E r \in lockedTiers[a] :
           r.id = result[a].detail[1] /\ r.available_quantity = 0 )
      => result[a].kind = "sold_out"

\* the total at the tiers' stored prices
RECURSIVE AuthoritativeFrom(_, _)
AuthoritativeFrom(d, i) ==
  IF i > Len(d.tickets) THEN 0
  ELSE tiers[d.tickets[i].tierId].price * d.tickets[i].quantity
       + AuthoritativeFrom(d, i + 1)

OffBy(d) == Abs(AuthoritativeFrom(d, 1) - d.totalAmount)

PastValidation ==
  {"update", "createBooking", "createItems", "payment", "failed", "confirm",
   "fetch"}

\* C9: an attempt gets past validation only if its claimed total is within
\* 0.01 of the sum of locked price x quantity; an attempt refused for the
\* amount was off by more, has written nothing and has not called payment.
C9_PriceIntegrity ==
  \A a \in AllAttempts :
    /\ (pc[a] \in PastValidation \/ result[a].kind \in {"created", "payment_failed"})
         => OffBy(dto[a]) <= Tolerance
    /\ result[a].kind = "amount_mismatch"
         => /\ OffBy(dto[a]) > Tolerance
            /\ result[a].detail = <<AuthoritativeFrom(dto[a], 1), dto[a].totalAmount>>
            /\ paid[a] = 0
            /\ DOMAIN tx[a].tiers = {} /\ tx[a].bookings = {} /\ tx[a].items = {}
            /\ a \notin CommittedIds
            /\ \A i \in items : i.booking_id # a

\* C9 witness: one attempt was refused for its amount and another, whose
\* claimed total is off by less than a cent, was booked
C9_Witness ==
  \E a, b \in AllAttempts :
    /\ Finished(a) /\ result[a].kind = "amount_mismatch"
    /\ Finished(b) /\ result[b].kind = "created" /\ OffBy(dto[b]) > 0

\* C10 as stated: no attempts wait for each other's tier locks in a cycle.
C10_NoWaitCycle == \A a \in AllAttempts : ~InWaitCycle(a)

\* C11 as stated: an attempt that has called processPayment while it holds
\* tier locks eventually holds none, whether the call returns or hangs.
C11_BoundedLockHold ==
  \A a \in ContentionAttempts : (pc[a] = "payment") ~> (HeldBy(a) = {})

\* attempt a looked its key up, found no booking and went on
FirstTime(a) ==
  pc[a] \notin {"idle", "findKey", "duplicate"} /\ result[a].kind # "duplicate"

\* a and b are first submissions of one key and a's booking is committed
Raced(a, b) ==
  /\ a # b
  /\ dto[a].idempotencyKey = dto[b].idempotencyKey
  /\ FirstTime(a) /\ FirstTime(b)
  /\ a \in CommittedIds

ConflictResponse ==
  [via |-> "conflict", status |-> 409, success |-> FALSE,
   message |-> "Duplicate entry"]

\* b is a resubmission of a's request
SamePayload(a, b) ==
  /\ dto[a].concertId = dto[b].concertId
  /\ dto[a].tickets = dto[b].tickets
  /\ dto[a].totalAmount = dto[b].totalAmount

\* C12 as stated: the loser of a same-key race (the same request submitted
\* twice) always ends with the Conflict outcome.
C12_LoserEndsInConflict ==
  \A a, b \in AllAttempts :
    (Raced(a, b) /\ SamePayload(a, b) /\ Finished(b)) =>
      /\ result[b].kind = "unique_violation"
      /\ \A env \in NodeEnvs : Respond(result[b], env) = ConflictResponse

\* how the loser of a same-key race can end
LoserOutcomes ==
  {"unique_violation", "insufficient_inventory", "amount_mismatch",
   "concert_not_found", "tier_not_found", "payment_failed",
   "statement_timeout", "deadlock_detected"}

\* C12 amended: the loser of a same-key race never succeeds and commits
\* nothing; it never gets past the insert of its booking row, where the unique
\* constraint refuses it and the answer is 409 Conflict; it may also end
\* earlier with a business rejection, with payment failed (its own insert came
\* first), or cancelled by the statement timeout or the deadlock detector.
C12_LoserNeverSucceeds ==
  \A a, b \in AllAttempts :
    Raced(a, b) =>
      /\ result[b].kind # "created"
      /\ b \notin CommittedIds
      /\ \A i \in items : i.booking_id # b
      /\ pc[b] \in {"concert", "lock", "update", "createBooking", "rollback", "done"}
      /\ pc[b] \in {"rollback", "done"} => result[b].kind \in LoserOutcomes
      /\ Finished(b) => HeldBy(b) = {} /\ tx[b] = EmptyTx
      /\ result[b].kind = "unique_violation" =>
           \A env \in NodeEnvs : Respond(result[b], env) = ConflictResponse

\* C12 witness: the winner is committed and the loser, refused by the unique
\* constraint, has been answered 409
C12_Witness ==
  \E a, b \in AllAttempts :
    /\ Raced(a, b) /\ Finished(a) /\ Finished(b)
    /\ Respond(result[b], "production").status = 409
    /\ Cardinality(bookings) = 1

BusinessRejections ==
  {"concert_not_found", "tier_not_found", "insufficient_inventory", "sold_out",
   "amount_mismatch", "payment_failed"}

\* what kind of answer a response is: the ResponseUtil method and the status
OutcomeOf(r) == <<r.via, r.status>>

\* the answer to a store error the handler has no case for (XX000,
\* internal_error)
GenericDatabaseError(env) == ErrorHandler(PostgresError("XX000", "internal error"), env)

\* C13 as stated: an attempt cancelled by the statement timeout ends with its
\* locks released and its writes undone, and its answer is a timeout outcome
\* of its own: not that of a business rejection, not the generic database
\* error and not the internal error.
C13_TimeoutReported ==
  \A a \in AllAttempts :
    (Finished(a) /\ result[a].kind = "statement_timeout") =>
      /\ HeldBy(a) = {} /\ tx[a] = EmptyTx
      /\ \A env \in NodeEnvs :
           LET r == Respond(result[a], env) IN
             /\ \A k \in BusinessRejections :
                  OutcomeOf(r) # OutcomeOf(ErrorHandler(ErrorOf(k), env))
             /\ OutcomeOf(r) # OutcomeOf(GenericDatabaseError(env))
             /\ OutcomeOf(r) # OutcomeOf(ErrorHandler(ErrorOf("internal"), env))

\* C14: every committed booking row is confirmed; pending and failed rows
\* exist only among the uncommitted writes of an open transaction, a failed
\* row only in one that is about to roll back, and no row is ever cancelled.
C14_StatusDurability ==
  /\ \A b \in bookings : b.status = "confirmed"
  /\ \A a \in AllAttempts :
       /\ \A r \in tx[a].bookings :
            /\ r.status \in {"pending", "failed", "confirmed"}
            /\ r.status = "failed" => pc[a] = "rollback"
            /\ r.status = "confirmed" => pc[a] \in {"fetch", "commit"}
       /\ result[a].kind = "payment_failed" => a \notin CommittedIds

\* C14 witness: an attempt wrote 'failed' and was rolled back, and the retry
\* under the same key is the only committed booking
C14_Witness ==
  \E a, b \in AllAttempts :
    /\ Finished(a) /\ result[a].kind = "payment_failed"
    /\ Finished(b) /\ result[b].kind = "created"
    /\ dto[a].idempotencyKey = dto[b].idempotencyKey
    /\ CommittedIds = {b}

ItemLines(rows) == { <<i.tier_id, i.quantity, i.price_per_ticket>> : i \in rows }

\* the lines booking id was created with, at the tiers' prices
CreatedLines(id) ==
  { <<dto[id].tickets[k].tierId, dto[id].tickets[k].quantity,
      tiers[dto[id].tickets[k].tierId].price>> : k \in DOMAIN dto[id].tickets }

\* C16: getBookingById of the id a finished createBooking returned finds the
\* booking of that id with exactly the items it was created with and is
\* answered 200; for every other id (an attempt that rolled back, has not
\* committed yet or returned a duplicate, or the id 0 no attempt has) it throws
\* NotFound, answered 404 'Booking not found'.
C16_ReadAfterCreate ==
  /\ \A a \in AllAttempts :
       (Finished(a) /\ result[a].kind \in {"created", "duplicate"}) =>
         LET id == result[a].bookingId
             got == GetBookingById(id)
         IN /\ got.found /\ got.id = id
            /\ ItemLines(got.items) = CreatedLines(id)
            /\ Cardinality(got.items) = Len(dto[id].tickets)
            /\ \A i \in got.items : i.booking_id = id
            /\ \A env \in NodeEnvs : GetBookingByIdResponse(got, env).status = 200
  /\ \A id \in AllAttempts \cup {0} :
       ~(id \in AllAttempts /\ Finished(id) /\ result[id].kind = "created") =>
         LET got == GetBookingById(id) IN
           /\ ~got.found
           /\ \A env \in NodeEnvs :
                GetBookingByIdResponse(got, env) =
                  [via |-> "error", status |-> 404, success |-> FALSE,
                   message |-> "Booking not found"]

\* C16 witness: a committed two-tier booking is read back with its two items
\* while the id of an attempt that rolled back after its inserts is not found
C16_Witness ==
  \E a, b \in AllAttempts :
    /\ Finished(a) /\ result[a].kind = "created"
    /\ Cardinality(GetBookingById(a).items) = 2
    /\ Finished(b) /\ result[b].kind = "payment_failed"
    /\ ~GetBookingById(b).found

\* C17: an attempt whose key is not committed and whose concert does not
\* exist ends with NotFound, answered 404 'Concert not found', and gets no
\* further: it has requested no tier lock, written nothing and called no
\* payment.
C17_ConcertNotFound ==
  \A a \in AllAttempts :
    /\ result[a].kind = "concert_not_found" =>
         /\ dto[a].concertId \notin Concerts
         /\ HeldBy(a) = {} /\ scan[a] = <<>> /\ lockedTiers[a] = {}
         /\ tx[a] = EmptyTx /\ paid[a] = 0
         /\ a \notin CommittedIds /\ \A i \in items : i.booking_id # a
         /\ \A env \in NodeEnvs :
              Respond(result[a], env) =
                [via |-> "error", status |-> 404, success |-> FALSE,
                 message |-> "Concert not found"]
    /\ ( /\ dto[a].concertId \notin Concerts
         /\ pc[a] \notin {"idle", "findKey", "concert"}
         /\ ~OnReplayPath(a) )
         => /\ result[a].kind = "concert_not_found"
            /\ pc[a] \in {"rollback", "done"}

\* C17 witness: an attempt for an unknown concert has ended with NotFound
\* while another attempt holds the lock of the tier it named
C17_Witness ==
  \E a, b \in AllAttempts :
    /\ Finished(a) /\ result[a].kind = "concert_not_found"
    /\ \E k \in DOMAIN dto[a].tickets : rowLock[dto[a].tickets[k].tierId] = b

\* the requested tier ids that are not tiers of the request's concert
NotOfConcert(d) ==
  { d.tickets[k].tierId : k \in DOMAIN d.tickets } \ MatchingTiers(d)

\* C18 as stated: an attempt whose validation ran with a requested tier that
\* is not a tier of its concert is rejected with NotFound and decrements
\* nothing; and every tier-not-found rejection names at least one requested
\* tier id that is missing from the concert.
C18_MissingTierNamed ==
  \A a \in AllAttempts :
    /\ (NotOfConcert(dto[a]) # {} /\ pc[a] \in PastValidation \cup {"commit"})
         => OnReplayPath(a)
    /\ result[a].kind = "tier_not_found" =>
         /\ DOMAIN tx[a].tiers = {} /\ a \notin CommittedIds
         /\ \A env \in NodeEnvs : Respond(result[a], env).status = 404
         /\ result[a].detail # <<>>
         /\ \A k \in DOMAIN result[a].detail :
              result[a].detail[k] \in NotOfConcert(dto[a])

ItemAmount(i) == i.price_per_ticket * i.quantity

\* C19 as stated: the total_amount of every committed booking is the sum of
\* price_per_ticket x quantity over its committed items.
C19_TotalIsItemSum ==
  \A b \in bookings :
    b.total_amount = SumOver(ItemAmount, { i \in items : i.booking_id = b.id })

\* the calls the page made and that were answered with a booking
Booked(a) == Finished(a) /\ result[a].kind \in {"created", "duplicate"}

\* C20 as stated: once a submission of the page has been answered with a
\* booking, every later submission (made after 'Make Another Booking', or
\* after the page was loaded again) carries another idempotency key and is
\* not answered as a duplicate of the earlier booking.
C20_NewBookingNewKey ==
  \A a, b \in AllAttempts :
    (a < b /\ Booked(a) /\ pc[b] # "idle") =>
      /\ dto[b].idempotencyKey # dto[a].idempotencyKey
      /\ result[b].kind # "duplicate"

\* the positions of createBooking on its way to a new booking, in order
MainPath ==
  <<"idle", "findKey", "concert", "lock", "update", "createBooking",
    "createItems", "payment", "confirm", "fetch", "commit", "done">>

Position(p) == CHOOSE i \in DOMAIN MainPath : MainPath[i] = p

OnMainPath(p) == \E i \in DOMAIN MainPath : MainPath[i] = p

\* the tiers a request names
RequestedTiers(d) == { d.tickets[k].tierId : k \in DOMAIN d.tickets }

\* the transaction of a is open with every write of steps 6 to 8 in it
AllWritten(a) ==
  /\ existing[a] = 0
  /\ Exists(dto[a].concertId)
  /\ RequestedTiers(dto[a]) \subseteq HeldBy(a)
  /\ { r.id : r \in lockedTiers[a] } = RequestedTiers(dto[a])
  /\ Validation(dto[a], lockedTiers[a])[1] = "ok"
  /\ \A k \in DOMAIN dto[a].tickets :
       LET t == dto[a].tickets[k].tierId IN
         /\ t \in DOMAIN tx[a].tiers
         /\ tx[a].tiers[t] = DecrementedRow(tiers[t], dto[a].tickets[k].quantity)
  /\ \E r \in tx[a].bookings : r.id = a
  /\ tx[a].items = BookingItems(a, dto[a], lockedTiers[a])
  /\ Cardinality(tx[a].items) = Len(dto[a].tickets)

C21_OrderState ==
  \A a \in AllAttempts :
    /\ paid[a] <= 1
    /\ paid[a] = 1 =>
         \/ pc[a] \in {"confirm", "failed", "fetch"}
         \/ result[a].kind \in {"created", "payment_failed"}
    /\ result[a].kind \in {"created", "payment_failed"} => paid[a] = 1
    /\ pc[a] \in {"payment", "confirm", "failed", "fetch"} => AllWritten(a)
    /\ pc[a] = "payment" =>
         /\ paid[a] = 0
         /\ tx[a].bookings = {BookingRow(a, dto[a], "pending")}
    /\ \A r \in tx[a].bookings :
         r.status = "confirmed" => paid[a] = 1 /\ pc[a] \in {"fetch", "commit"}
    /\ \A b \in bookings : b.status = "confirmed" => paid[b.id] = 1
    /\ result[a].kind \in ErrorKinds => pc[a] \in {"rollback", "done"}
    /\ pc[a] = "rollback" => result[a].kind \in ErrorKinds

C21_OrderStep ==
  \A a \in AllAttempts :
    /\ Moved(a) =>
         \/ /\ OnMainPath(pc[a]) /\ OnMainPath(pc'[a])
            /\ \/ Position(pc'[a]) = Position(pc[a]) + 1
               \/ pc'[a] = pc[a] /\ pc[a] \in {"lock", "update"}
         \/ pc[a] = "findKey" /\ pc'[a] = "duplicate"
         \/ pc[a] = "duplicate" /\ pc'[a] = "commit"
         \/ pc[a] = "payment" /\ pc'[a] = "failed"
         \/ /\ pc[a] \in {"concert", "lock", "update", "createBooking", "failed"}
            /\ pc'[a] = "rollback"
         \/ pc[a] = "rollback" /\ pc'[a] = "done"
    /\ paid'[a] # paid[a] => pc[a] = "payment" /\ paid'[a] = 1
    /\ (pc[a] = "confirm" /\ Moved(a)) => paid[a] = 1

\* C21: processPayment is called at most once per attempt and only in a
\* transaction that found no booking for the key, found the concert, holds the
\* lock of every requested tier, passed the availability and price checks,
\* decremented every requested tier and inserted the pending booking and its
\* items; steps are taken in that order only; 'confirmed' is written only
\* after a successful payment, and a rejected attempt only rolls back.
C21_StepOrdering == [](C21_OrderState) /\ [][C21_OrderStep]_vars

\* C21 witness: a two-tier attempt is at the payment call with both tiers
\* locked and decremented, while another attempt was rejected at validation
C21_Witness ==
  \E a, b \in AllAttempts :
    /\ pc[a] = "payment" /\ Len(dto[a].tickets) = 2 /\ AllWritten(a)
    /\ Finished(b) /\ result[b].kind = "amount_mismatch" /\ paid[b] = 0

\* the rejections of steps 2 to 5
ValidationRejections ==
  {"concert_not_found", "tier_not_found", "insufficient_inventory", "sold_out",
   "amount_mismatch"}

\* the transaction of a has written something
HasWritten(a) ==
  DOMAIN tx[a].tiers # {} \/ tx[a].bookings # {} \/ tx[a].items # {}

C22_RejectedState ==
  \A a \in AllAttempts :
    /\ result[a].kind \in ValidationRejections =>
         /\ ~HasWritten(a)
         /\ cursor[a] = 0 /\ paid[a] = 0
         /\ a \notin CommittedIds
         /\ \A i \in items : i.booking_id # a
    /\ HasWritten(a) =>
         /\ Exists(dto[a].concertId)
         /\ Validation(dto[a], lockedTiers[a])[1] = "ok"

C22_RejectedStep ==
  \A a \in AllAttempts :
    (Moved(a) /\ result'[a].kind \in ValidationRejections) =>
      /\ store' = store
      /\ tx'[a] = EmptyTx
      /\ pc[a] \in {"concert", "lock", "rollback"}

\* C22: an attempt rejected with concert-not-found, tier-not-found,
\* insufficient-inventory, sold-out or amount-mismatch has written nothing in
\* its own transaction (every write is preceded by the complete validation),
\* and neither its rejection nor its end changes a committed tier, booking or
\* item.
C22_RejectionsWriteNothing == [](C22_RejectedState) /\ [][C22_RejectedStep]_vars

\* C22 witness: an attempt was rejected for insufficient inventory after
\* another one was booked, and the committed rows are those of that booking
C22_Witness ==
  \E a, b \in AllAttempts :
    /\ Finished(a) /\ result[a].kind = "insufficient_inventory"
    /\ Finished(b) /\ result[b].kind = "created"
    /\ CommittedIds = {b} /\ \A i \in items : i.booking_id = b
    /\ \A t \in TierIds :
         tiers[t].available_quantity = tiers[t].total_quantity - SoldBy(t, {b})

\* the open transactions whose lockTicketTiers returned row t
LockHolders(t) ==
  { a \in AllAttempts : \E r \in lockedTiers[a] : r.id = t }

\* a is waiting in lockTicketTiers for a row another transaction holds
WaitsForLock(a) ==
  pc[a] = "lock" /\ scan[a] # <<>> /\ ~CanLock(a, Head(scan[a]))

C23_Exclusive ==
  /\ \A t \in TierIds :
       /\ Cardinality(LockHolders(t)) <= 1
       /\ LockHolders(t) = {rowLock[t]} \ {0}
  /\ \A a \in AllAttempts :
       /\ DOMAIN tx[a].tiers \subseteq HeldBy(a)
       /\ pc[a] \in PastValidation => RequestedTiers(dto[a]) \subseteq HeldBy(a)
       /\ HeldBy(a) # {} =>
            pc[a] \in PastValidation \cup {"lock", "commit", "rollback"}

\* the counters change only in the holder's transaction and become visible
\* only with its commit; the lock goes only when the holder's transaction ends
C23_HolderStep ==
  /\ \A t \in TierIds :
       /\ tiers'[t] # tiers[t] =>
            /\ rowLock[t] # 0
            /\ pc[rowLock[t]] = "commit" /\ pc'[rowLock[t]] = "done"
       /\ (rowLock[t] # 0 /\ rowLock'[t] # rowLock[t]) =>
            /\ rowLock'[t] = 0
            /\ pc[rowLock[t]] \in {"commit", "rollback"}
            /\ pc'[rowLock[t]] = "done"
  /\ \A a \in AllAttempts : \A t \in DOMAIN tx'[a].tiers :
       (t \notin DOMAIN tx[a].tiers \/ tx'[a].tiers[t] # tx[a].tiers[t]) =>
         rowLock[t] = a /\ rowLock'[t] = a

\* a waiting attempt does not move while the row it asks for is held
C23_WaiterBlocked ==
  \A b \in AllAttempts : WaitsForLock(b) => ~Moved(b)

\* a waiting attempt moves only by being cancelled, and gets no row by it
C23_WaiterBlockedOrCancelled ==
  \A b \in AllAttempts :
    (WaitsForLock(b) /\ Moved(b)) =>
      /\ pc'[b] = "rollback"
      /\ result'[b].kind \in {"statement_timeout", "deadlock_detected"}
      /\ rowLock' = rowLock /\ lockedTiers' = lockedTiers /\ store' = store

\* C23 as stated: a tier's lock has at most one holder, the tier's counters
\* are changed only by the holder, the lock is held until the holder commits
\* or rolls back, and another attempt that asks for the tier stays blocked at
\* lock acquisition for that whole window.
C23_LockExclusivity ==
  [](C23_Exclusive) /\ [][C23_HolderStep /\ C23_WaiterBlocked]_vars

\* C23 amended: as stated, except that the attempt blocked at lock acquisition
\* either stays blocked or is cancelled there (statement timeout, deadlock
\* detector) and rolls back without having been granted the row.
C23_LockExclusivityUntilCancelled ==
  [](C23_Exclusive) /\ [][C23_HolderStep /\ C23_WaiterBlockedOrCancelled]_vars

\* C23 witness: the holder of tier 1 is at the payment call with the tier
\* decremented, and an attempt that waited for the tier has been cancelled
C23_Witness ==
  \E a, b \in AllAttempts :
    /\ pc[a] = "payment" /\ rowLock[1] = a /\ 1 \in DOMAIN tx[a].tiers
    /\ pc[b] = "rollback" /\ result[b].kind = "statement_timeout"
    /\ 1 \in RequestedTiers(dto[b]) /\ LockHolders(1) = {a}

\* C24: every row an attempt got from lockTicketTiers carries the tier's
\* committed available_quantity, price and version (no other transaction can
\* change them while the lock is held, so they are the values at the grant);
\* the availability check, the price check, the decrements and the item
\* prices all work on these values, never on older ones.
C24_FreshReadUnderLock ==
  \A a \in AllAttempts :
    /\ \A r \in lockedTiers[a] :
         /\ rowLock[r.id] = a
         /\ r.available_quantity = tiers[r.id].available_quantity
         /\ r.price = tiers[r.id].price
         /\ r.version = tiers[r.id].version
    /\ \A t \in DOMAIN tx[a].tiers :
         \E k \in DOMAIN dto[a].tickets :
           /\ dto[a].tickets[k].tierId = t
           /\ tx[a].tiers[t].available_quantity =
                tiers[t].available_quantity - dto[a].tickets[k].quantity
    /\ \A i \in tx[a].items : i.price_per_ticket = tiers[i.tier_id].price
    /\ result[a].kind = "insufficient_inventory" =>
         /\ pc[a] = "rollback" =>
              result[a].detail[3] = tiers[result[a].detail[1]].available_quantity
         /\ result[a].detail[3] < result[a].detail[2]

\* C24 witness: the lock statement of an attempt has returned tier 1 with the
\* quantity and version the previous holder's commit left, and the attempt
\* has been rejected on that quantity
C24_Witness ==
  \E a \in AllAttempts :
    /\ pc[a] = "rollback" /\ result[a].kind = "insufficient_inventory"
    /\ \E r \in lockedTiers[a] :
         /\ r.id = 1 /\ r.version = 1
         /\ r.available_quantity = VipAvailable - ContentionQuantity
         /\ result[a].detail = <<1, ContentionQuantity, r.available_quantity>>

\* the confirmed committed bookings that contain an item of tier t
ConfirmedOn(t) ==
  { b \in ConfirmedIds : \E i \in items : i.booking_id = b /\ i.tier_id = t }

\* the rows with another version in them
WithVersion(rows, v) == { [r EXCEPT !.version = v] : r \in rows }

C25_VersionState ==
  /\ \A t \in TierIds :
       tiers[t].version = SeedTiers[t].version + Cardinality(ConfirmedOn(t))
  /\ \A a \in AllAttempts :
       /\ \A t \in DOMAIN tx[a].tiers :
            tx[a].tiers[t].version = tiers[t].version + 1
       /\ (pc[a] = "lock" /\ scan[a] = <<>>) =>
            Validation(dto[a], WithVersion(lockedTiers[a], 0)) =
              Validation(dto[a], lockedTiers[a])

C25_VersionStep ==
  /\ \A t \in TierIds :
       /\ tiers'[t].version >= tiers[t].version
       /\ tiers'[t].version # tiers[t].version =>
            \E a \in AllAttempts :
              /\ pc[a] = "commit" /\ pc'[a] = "done"
              /\ result[a].kind = "created"
              /\ t \in RequestedTiers(dto[a])
              /\ tiers'[t].version = tiers[t].version + 1
  /\ \A a \in AllAttempts :
       /\ (pc[a] = "commit" /\ pc'[a] = "done" /\ result[a].kind = "created") =>
            \A t \in RequestedTiers(dto[a]) :
              tiers'[t].version = tiers[t].version + 1
       /\ (Moved(a) /\ pc'[a] = "done" /\ result[a].kind # "created") =>
            \A t \in TierIds : tiers'[t].version = tiers[t].version

\* C25: a tier's committed version never decreases; the commit of a confirmed
\* booking advances the version of each of its tiers by exactly one and no
\* other step changes a version, so a tier's version is its initial version
\* plus the number of confirmed bookings with an item of that tier; and the
\* checks of createBooking do not depend on the version.
C25_RevisionCounter == [](C25_VersionState) /\ [][C25_VersionStep]_vars

\* C25 witness: two confirmed bookings contain tier 1 and one of them tier 2
C25_Witness ==
  /\ Quiescent
  /\ tiers[1].version = 2 /\ tiers[2].version = 1 /\ tiers[3].version = 0
  /\ Cardinality(ConfirmedOn(1)) = 2

Started(a) == pc[a] # "idle"

\* how an attempt has ended: by commit with a booking to return, or by
\* rollback with an error
C26_EndState ==
  \A a \in AllAttempts :
    /\ Finished(a) =>
         /\ HeldBy(a) = {} /\ tx[a] = EmptyTx
         /\ scan[a] = <<>> /\ lockedTiers[a] = {}
         /\ result[a].kind \in {"created", "duplicate"} \cup ErrorKinds
    /\ pc[a] = "commit" => result[a].kind \in {"created", "duplicate"}
    /\ pc[a] = "rollback" => result[a].kind \in ErrorKinds
    /\ pc[a] \notin {"commit", "rollback", "done"} => result[a].kind = "none"

\* how far createBooking has got: each position is ranked after every
\* position it can be reached from
PcRank(p) ==
  CASE p = "idle" -> 0
    [] p = "findKey" -> 1
    [] p \in {"concert", "duplicate"} -> 2
    [] p = "lock" -> 3
    [] p = "update" -> 4
    [] p = "createBooking" -> 5
    [] p = "createItems" -> 6
    [] p = "payment" -> 7
    [] p \in {"confirm", "failed"} -> 8
    [] p = "fetch" -> 9
    [] p \in {"commit", "rollback"} -> 10
    [] p = "done" -> 11

\* rows still to lock count against the rank, tickets already updated for it
Rank(p, s, c) == (2 * MaxTiers + 2) * PcRank(p) + c - Len(s)

C26_Advances ==
  \A a \in AllAttempts :
    /\ Moved(a) => Rank(pc'[a], scan'[a], cursor'[a]) > Rank(pc[a], scan[a], cursor[a])
    /\ Finished(a) => pc'[a] = pc[a] /\ result'[a] = result[a]
    /\ (pc[a] = "commit" /\ Moved(a)) => Finished(a)'
    /\ (pc[a] = "rollback" /\ Moved(a)) => Finished(a)'

\* a started attempt that has not ended can take a step: the store answers
\* or cancels its statement, the payment call returns, or the transaction is
\* ended
C26_NeverStuck ==
  \A a \in AllAttempts :
    (Started(a) /\ ~Finished(a)) =>
      /\ ENABLED Progress(a)
      /\ Rank(pc[a], scan[a], cursor[a]) \in 1..((2 * MaxTiers + 2) * PcRank("done") - 1)

\* C26: a started attempt that has not ended can always take a step, and each
\* of its steps brings it strictly closer to its end, so with every awaited
\* call answered it ends after a bounded number of steps; it ends by commit
\* with a created or duplicate result or by rollback with an error result,
\* holds no tier lock and has no open transaction afterwards, and stays ended.
C26_Termination ==
  [](C26_EndState /\ C26_NeverStuck) /\ [][C26_Advances]_vars

\* C26 witness: all attempts have ended, one by commit and one by rollback
\* after it had waited for the other's tier lock
C26_Witness ==
  /\ AllDone
  /\ \E a, b \in AllAttempts :
       /\ result[a].kind = "created"
       /\ result[b].kind \in {"statement_timeout", "deadlock_detected"}
  /\ \A t \in TierIds : rowLock[t] = 0

\* lockTicketTiers has returned a row for every line of a's request
AllRowsLocked(a) ==
  /\ pc[a] \in PastValidation \cup {"rollback"}
  /\ ~RowsShort(dto[a], lockedTiers[a])
  /\ \A k \in DOMAIN dto[a].tickets :
       \E r \in lockedTiers[a] : r.id = dto[a].tickets[k].tierId

RowOf(a, k) == FindTier(lockedTiers[a], dto[a].tickets[k].tierId)

\* the lines of a's request whose tier has some tickets left, but not enough
ShortLines(a) ==
  { k \in DOMAIN dto[a].tickets :
      /\ 0 < RowOf(a, k).available_quantity
      /\ RowOf(a, k).available_quantity < dto[a].tickets[k].quantity }

\* the lines of a's request whose tier has less left than asked for
LackingLines(a) ==
  { k \in DOMAIN dto[a].tickets :
      RowOf(a, k).available_quantity < dto[a].tickets[k].quantity }

First(S) == CHOOSE k \in S : \A j \in S : k <= j

\* a was rejected for line k of its request, has called no payment and has
\* written nothing
RejectedForLine(a, k) ==
  /\ pc[a] = "rollback"
  /\ result[a].kind = "insufficient_inventory"
  /\ result[a].detail = <<dto[a].tickets[k].tierId, dto[a].tickets[k].quantity,
                          RowOf(a, k).available_quantity>>
  /\ \A env \in NodeEnvs : Respond(result[a], env).status = 400
  /\ paid[a] = 0 /\ ~HasWritten(a)

\* an insufficient-inventory rejection has left no row behind
NothingPersists ==
  \A a \in AllAttempts :
    result[a].kind = "insufficient_inventory" =>
      /\ pc[a] \in {"rollback", "done"}
      /\ paid[a] = 0
      /\ a \notin CommittedIds /\ \A i \in items : i.booking_id # a

BookingOfKey(a) == CHOOSE b \in bookings : b.idempotency_key = dto[a].idempotencyKey

C28_ReusedKeyState ==
  \A a \in AllAttempts :
    OnReplayPath(a) =>
      /\ result[a].kind \in {"none", "duplicate"}
      /\ pc[a] \in {"duplicate", "commit", "done"}
      /\ KeyCommitted(dto[a].idempotencyKey)
      /\ existing[a] = BookingOfKey(a).id /\ existing[a] # a
      /\ result[a].kind = "duplicate" =>
           /\ result[a].bookingId = BookingOfKey(a).id
           /\ \A env \in NodeEnvs : Respond(result[a], env).status = 200
      /\ scan[a] = <<>> /\ lockedTiers[a] = {} /\ HeldBy(a) = {}
      /\ cursor[a] = 0 /\ tx[a] = EmptyTx /\ paid[a] = 0
      /\ \A b \in bookings : b.user_id # dto[a].userId
      /\ \A i \in items : i.booking_id # a

C28_ReusedKeyStep ==
  \A a \in AllAttempts :
    /\ (pc[a] = "findKey" /\ Moved(a)) =>
         (pc'[a] = "duplicate") = KeyCommitted(dto[a].idempotencyKey)
    /\ (OnReplayPath(a) /\ Moved(a)) => store' = store /\ rowLock' = rowLock

\* C28: an attempt whose lookup finds a committed booking with its key is
\* answered as a duplicate of that booking, whatever its concert, tiers,
\* quantities, total and user are: it reaches none of the concert, tier,
\* availability and price checks, takes no lock, calls no payment and writes
\* nothing.
C28_KeyReuseIgnoresPayload == [](C28_ReusedKeyState) /\ [][C28_ReusedKeyStep]_vars

\* C28 witness: a request for a concert that does not exist, with other
\* tickets and another total, was answered 200 as a duplicate of the booking
\* that owns its key
C28_Witness ==
  \E a, b \in AllAttempts :
    /\ Finished(a) /\ result[a].kind = "duplicate" /\ result[a].bookingId = b
    /\ dto[a].concertId = NoConcert /\ ~Exists(dto[a].concertId)
    /\ dto[a].tickets # dto[b].tickets
    /\ dto[a].totalAmount # dto[b].totalAmount
    /\ dto[a].userId # dto[b].userId
    /\ Respond(result[a], "production").status = 200

\* the request names one tier in two lines
Repeated(d) ==
  \E j, k \in DOMAIN d.tickets : j # k /\ d.tickets[j].tierId = d.tickets[k].tierId

\* the lines of a request that name tier t
LinesOn(d, t) == { k \in DOMAIN d.tickets : d.tickets[k].tierId = t }

RolledBack(a) == Finished(a) /\ result[a].kind \in ErrorKinds

C30_RetryState ==
  \A a \in AllAttempts :
    /\ RolledBack(a) =>
         /\ a \notin CommittedIds
         /\ \A i \in items : i.booking_id # a
         /\ \A b \in FindKey(dto[a].idempotencyKey) :
              b.id # a /\ result[b.id].kind = "created" /\ b.status = "confirmed"
    /\ result[a].kind = "duplicate" =>
         /\ ~RolledBack(result[a].bookingId)
         /\ result[result[a].bookingId].kind = "created"
    /\ (Finished(a) /\ result[a].kind = "created") =>
         /\ FindKey(dto[a].idempotencyKey) = {BookingRow(a, dto[a], "confirmed")}
         /\ paid[a] = 1

C30_RetryStep ==
  \A a \in AllAttempts :
    (pc[a] = "findKey" /\ Moved(a) /\ ~KeyCommitted(dto[a].idempotencyKey)) =>
      pc'[a] = "concert"

\* C30: an attempt that ended by rollback (payment failed or any other error)
\* has left no booking and no item, so its key is found only if another
\* attempt created a booking under it; a later attempt with the key goes
\* through the whole of createBooking and, if it succeeds, its confirmed
\* booking is the one committed booking of the key; no attempt is ever
\* answered as a duplicate of an attempt that rolled back.
C30_RetryAfterFailure == [](C30_RetryState) /\ [][C30_RetryStep]_vars

\* C30 witness: the payment of the first attempt with a key failed, the retry
\* with the same key and request was validated, paid and confirmed, and the
\* tiers carry the decrement once
C30_Witness ==
  \E a, b \in AllAttempts :
    /\ a < b /\ dto[a].idempotencyKey = dto[b].idempotencyKey
    /\ SamePayload(a, b)
    /\ Finished(a) /\ result[a].kind = "payment_failed" /\ paid[a] = 1
    /\ Finished(b) /\ result[b].kind = "created" /\ paid[b] = 1
    /\ FindKey(dto[b].idempotencyKey) = {BookingRow(b, dto[b], "confirmed")}
    /\ \A t \in TierIds :
         tiers[t].available_quantity = tiers[t].total_quantity - SoldBy(t, {b})

====
